---- MODULE Spec2Model ----
(***************************************************************************)
(* SkyBot: a single-user RAG chat service.                                 *)
(*   app/core/config.py      configuration                                 *)
(*   app/services/ingest.py  ingestion pipeline (load, split, embed, save) *)
(*   app/services/chatbot.py RAGChatbot (index + conversation history)     *)
(*   app/api/routes.py       HTTP handlers over one shared RAGChatbot      *)
(*                                                                         *)
(* Text is modelled as sequences of one-character strings so that strip(), *)
(* Path.name, Path.suffix and lower() are computed, not assumed.  The      *)
(* external collaborators (document loaders, FAISS, the Groq endpoint, the *)
(* file system) are nondeterministic outcomes drawn by the actions.        *)
(***************************************************************************)
EXTENDS Integers, Sequences, FiniteSets, TLC

VARIABLES
    MAX_HISTORY_LENGTH, \* config.py:36, read once from the environment
    _vectorstore,       \* RAGChatbot._vectorstore: None or a FAISS index
    _history,           \* RAGChatbot._history: list of (question, answer)
    disk,               \* the persisted index directory FAISS_INDEX_PATH
    req,                \* the input of the last operation
    resp,               \* what the last operation returned to its caller
    calls,              \* what the last operation invoked while it ran (and,
                        \* for a status, the operation served just before it)
    pc,                 \* threads of ConcSpec: position of each thread
    local,              \* threads of ConcSpec: each thread's local values
    completed,          \* ConcSpec: rebuilds in their order of completion
    rq                  \* RetrieveSpec: one _retrieve call and its outcome

vars == <<MAX_HISTORY_LENGTH, _vectorstore, _history, disk,
          req, resp, calls, pc, local, completed, rq>>

---------------------------------------------------------------------------
(* Bounds of the model *)

\* MAX_HISTORY_LENGTH is drawn from 0..MaxHistoryConfig
MaxHistoryConfig == 2
\* RetrieveSpec calls _retrieve with k in 1..MaxK on an index of MaxK + 1 chunks
MaxK == 2

---------------------------------------------------------------------------
(* Text *)

\* str.lower() on the characters the model uses
LowerChar(c) ==
    CASE c = "T" -> "t"
      [] c = "X" -> "x"
      [] c = "D" -> "d"
      [] c = "O" -> "o"
      [] c = "C" -> "c"
      [] c = "P" -> "p"
      [] c = "F" -> "f"
      [] OTHER -> c

Lower(s) == [i \in 1..Len(s) |-> LowerChar(s[i])]

IsSpace(c) == c \in {" ", "\t", "\n"}

RECURSIVE LStrip(_)
LStrip(s) == IF s # <<>> /\ IsSpace(Head(s)) THEN LStrip(Tail(s)) ELSE s

RECURSIVE RStrip(_)
RStrip(s) ==
    IF s # <<>> /\ IsSpace(s[Len(s)]) THEN RStrip(SubSeq(s, 1, Len(s) - 1)) ELSE s

\* str.strip(): routes.py:53
strip_mut(s) == s
strip(s) == RStrip(LStrip(s))

\* pathlib: the components of a path, "" and "." components dropped
RECURSIVE PathParts(_, _, _)
PathParts(s, cur, acc) ==
    LET flush == IF cur = <<>> \/ cur = <<".">> THEN acc ELSE Append(acc, cur)
    IN IF s = <<>> THEN flush
       ELSE IF Head(s) = "/" THEN PathParts(Tail(s), <<>>, flush)
       ELSE PathParts(Tail(s), Append(cur, Head(s)), acc)

\* Path(p).name: the final component, "" when there is none
PathName(p) ==
    LET parts == PathParts(p, <<>>, <<>>)
    IN IF parts = <<>> THEN <<>> ELSE parts[Len(parts)]

\* Path(p).suffix: from the last dot of the name, unless that dot is the first
\* or the last character of the name
PathSuffix(p) ==
    LET name == PathName(p)
        dots == {i \in 1..Len(name) : name[i] = "."}
    IN IF dots = {} THEN <<>>
       ELSE LET i == CHOOSE d \in dots : \A e \in dots : e <= d
            IN IF 1 < i /\ i < Len(name) THEN SubSeq(name, i, Len(name)) ELSE <<>>

\* UPLOAD_DIR / filename
UploadPath(filename) == <<"u", "/">> \o filename

---------------------------------------------------------------------------
(* Configuration: app/core/config.py *)

TXT == <<".", "t", "x", "t">>
PDF == <<".", "p", "d", "f">>
ALLOWED_EXTENSIONS == {TXT, PDF}

\* scores are in tenths: RAG_MIN_SCORE = 0.6
RAG_MIN_SCORE == 6
RAG_TOP_K == 4

Min(a, b) == IF a <= b THEN a ELSE b
Max(a, b) == IF a >= b THEN a ELSE b

---------------------------------------------------------------------------
(* Ingestion: app/services/ingest.py *)

\* self._vectorstore is None, or a FAISS index built from document doc in n chunks
None == [present |-> FALSE, doc |-> 0, n |-> 0]
Index(content) == [present |-> TRUE, doc |-> content.doc, n |-> content.n]

\* FAISS_INDEX_PATH: empty, a saved index, or files of a save that broke off
EmptyDisk == [state |-> "empty", doc |-> 0, n |-> 0]
CorruptDisk == [state |-> "corrupt", doc |-> 0, n |-> 0]
SavedDisk(ix) == [state |-> "index", doc |-> ix.doc, n |-> ix.n]

\* What the loader, the embedding/index build and save_local do on one call
IoOutcomes ==
    [load : {"docs", "empty", "error"},
     build : {"ok", "error"},
     save : {"ok", "error_clean", "error_partial"}]

\* _load_file: the documents of a .txt or .pdf file, ValueError otherwise
LoadByExt(ext, content, io) ==
    IF ext \in {TXT, PDF}
    THEN IF io.load = "error"
         THEN [raised |-> TRUE, error |-> "load_error", docs |-> 0]
         ELSE [raised |-> FALSE, error |-> "",
               docs |-> IF io.load = "empty" THEN 0 ELSE content.n]
    ELSE [raised |-> TRUE, error |-> "unsupported_extension", docs |-> 0]

_load_file(file_path, content, io) ==
    LoadByExt(Lower(PathSuffix(file_path)), content, io)

IngestFailed(e, d) == [raised |-> TRUE, error |-> e, index |-> None, disk |-> d]

\* ingest_file, once _load_file is back with loaded
IngestLoaded(loaded, content, save_to_disk, io, dsk) ==
    IF loaded.raised THEN IngestFailed(loaded.error, dsk)
    ELSE IF loaded.docs = 0 THEN IngestFailed("no_content", dsk)
    ELSE IF io.build = "error" THEN IngestFailed("build_error", dsk)
    ELSE IF save_to_disk
    THEN IF io.save = "ok"
         THEN [raised |-> FALSE, error |-> "", index |-> Index(content),
               disk |-> SavedDisk(Index(content))]
         ELSE IngestFailed("save_error",
                           IF io.save = "error_partial" THEN CorruptDisk ELSE dsk)
    ELSE [raised |-> FALSE, error |-> "", index |-> Index(content), disk |-> dsk]

\* ingest_file: the new index and the persisted index afterwards, or the error
ingest_file(file_path, content, save_to_disk, io, dsk) ==
    IngestLoaded(_load_file(file_path, content, io), content, save_to_disk, io, dsk)

\* load_index: None when the directory is empty or the load fails
load_index(dsk, load_ok) ==
    IF dsk.state = "empty" THEN None
    ELSE IF dsk.state = "corrupt" \/ ~load_ok THEN None
    ELSE [present |-> TRUE, doc |-> dsk.doc, n |-> dsk.n]

---------------------------------------------------------------------------
(* The Groq client and the prompt: app/services/chatbot.py *)

NOT_READY_MSG == "Aucun document n'a ete importe. Veuillez importer un fichier via la zone d'upload."
NO_INFO_MSG == "Je n'ai pas trouve d'informations pertinentes dans le document pour repondre a votre question."
TIMEOUT_MSG == "La requete a pris trop de temps. Veuillez reessayer avec une question plus courte."
UNEXPECTED_MSG == "Une erreur inattendue s'est produite. Veuillez reessayer."
EMPTY_QUESTION_MSG == "Veuillez saisir une question."

\* f"Erreur API ({status}). Veuillez reessayer."
ApiErrorMsg(status) == IF status = 429 THEN "Erreur API (429)." ELSE "Erreur API (5xx)."

\* What requests.post / raise_for_status / response.json() do on one call
NetOutcomes ==
    {[kind |-> "ok", text |-> "Paris.", status |-> 200],
     [kind |-> "timeout", text |-> "", status |-> 0],
     [kind |-> "http", text |-> "", status |-> 429],
     [kind |-> "error", text |-> "", status |-> 0]}

FallbackMessages == {TIMEOUT_MSG, UNEXPECTED_MSG, ApiErrorMsg(429)}

\* _call_groq: the completion text, or the fallback message of the failure
_call_groq_mut(prompt, net) ==
    [raised |-> net.kind # "ok", text |-> net.text]
_call_groq(prompt, net) ==
    [raised |-> FALSE,
     text |-> CASE net.kind = "ok" -> net.text
                [] net.kind = "timeout" -> TIMEOUT_MSG
                [] net.kind = "http" -> ApiErrorMsg(net.status)
                [] OTHER -> UNEXPECTED_MSG]

\* history[-3:]
Last3(history) == SubSeq(history, Max(1, Len(history) - 2), Len(history))

\* _build_prompt: the parts the prompt text is assembled from
_build_prompt_mut(question, context_docs, history) ==
    [question |-> question, passages |-> context_docs, history |-> <<>>]
_build_prompt(question, context_docs, history) ==
    [question |-> question, passages |-> context_docs, history |-> Last3(history)]

---------------------------------------------------------------------------
(* RAGChatbot: app/services/chatbot.py *)

is_ready_mut(vs) == TRUE
is_ready(vs) == vs # None

\* rebuild_from_file: self._vectorstore = ingest_file(...), so the assignment
\* happens only when ingest_file returns
RebuildCleared(vs, r) ==
    [raised |-> r.raised, error |-> r.error, _vectorstore |-> r.index,
     disk |-> r.disk]

RebuildAssigned(vs, r) ==
    [raised |-> r.raised, error |-> r.error,
     _vectorstore |-> IF r.raised THEN vs ELSE r.index, disk |-> r.disk]

rebuild_from_file_mut(vs, file_path, content, save_to_disk, io, dsk) ==
    RebuildCleared(vs, ingest_file(file_path, content, save_to_disk, io, dsk))
rebuild_from_file(vs, file_path, content, save_to_disk, io, dsk) ==
    RebuildAssigned(vs, ingest_file(file_path, content, save_to_disk, io, dsk))

\* The chunks of an index and what its two searches can answer for k
Chunks(vs) == {[doc |-> vs.doc, i |-> j] : j \in 1..vs.n}
Scores == {5, 6}

InjSeqs(S, n) ==
    UNION {{s \in [1..m -> S] : \A i, j \in 1..m : s[i] = s[j] => i = j} : m \in 0..n}

\* similarity_search: up to k chunks, best match first, or an exception
PlainOutcomes(vs, k) ==
    {[raised |-> TRUE, docs |-> <<>>]} \cup
    {[raised |-> FALSE, docs |-> s] : s \in InjSeqs(Chunks(vs), Min(k, vs.n))}

\* similarity_search_with_score: up to k (chunk, score) pairs in ascending
\* distance, or an exception
ScoredOutcomes(vs, k) ==
    {[raised |-> TRUE, pairs |-> <<>>]} \cup
    {[raised |-> FALSE, pairs |-> p] :
        p \in UNION {{[i \in 1..Len(s) |-> [doc |-> s[i], score |-> sc[i]]] :
                        sc \in {f \in [1..Len(s) -> Scores] :
                                  \A i, j \in 1..Len(s) : i <= j => f[i] <= f[j]}} :
                     s \in InjSeqs(Chunks(vs), Min(k, vs.n))}}

\* [doc for doc, score in pairs if score >= RAG_MIN_SCORE]
Keep_mut(p) == p.score > RAG_MIN_SCORE
Keep(p) == p.score >= RAG_MIN_SCORE

RECURSIVE FilterDocs(_)
FilterDocs(pairs) ==
    IF pairs = <<>> THEN <<>>
    ELSE IF Keep(Head(pairs)) THEN <<Head(pairs).doc>> \o FilterDocs(Tail(pairs))
    ELSE FilterDocs(Tail(pairs))

\* _retrieve, lines 189-196: the filtered docs, none when the scored search raised
ScoredDocs(scored) == IF scored.raised THEN <<>> ELSE FilterDocs(scored.pairs)

\* _retrieve: scored search, then the plain search when nothing passed or the
\* scored search raised; an exception of the plain search propagates
RetrieveWith(docs, plain) ==
    IF docs # <<>>
    THEN [raised |-> FALSE, docs |-> docs, scored_calls |-> 1, plain_calls |-> 0]
    ELSE [raised |-> plain.raised, docs |-> plain.docs,
          scored_calls |-> 1, plain_calls |-> 1]

_retrieve(scored, plain) == RetrieveWith(ScoredDocs(scored), plain)

\* history[-n:] as Python slices it: -0 is 0, so history[-0:] is all of it
SliceLast(history, n) ==
    IF n = 0 \/ n >= Len(history) THEN history
    ELSE SubSeq(history, Len(history) - n + 1, Len(history))

\* if len(self._history) > MAX_HISTORY_LENGTH: keep the last MAX_HISTORY_LENGTH
Trim(appended, maxlen) ==
    IF Len(appended) > maxlen THEN SliceLast(appended, maxlen) ELSE appended

\* _add_to_history
_add_to_history(history, question, answer, maxlen) ==
    Trim(Append(history, <<question, answer>>), maxlen)

NoRetrieve == [raised |-> FALSE, docs |-> <<>>, scored_calls |-> 0, plain_calls |-> 0]

\* ask, once the answer of _call_groq is there
AskAnswered(history, maxlen, question, r, answer) ==
    IF answer.raised
    THEN [raised |-> TRUE, answer |-> "", _history |-> history,
          retrieve_calls |-> 1, retrieved |-> r, llm_calls |-> 1]
    ELSE [raised |-> FALSE, answer |-> answer.text,
          _history |-> _add_to_history(history, question, answer.text, maxlen),
          retrieve_calls |-> 1, retrieved |-> r, llm_calls |-> 1]

\* ask, once _retrieve is back with r
AskRetrieved_mut(history, maxlen, question, r, net) ==
    IF r.raised
    THEN [raised |-> TRUE, answer |-> "", _history |-> history,
          retrieve_calls |-> 1, retrieved |-> r, llm_calls |-> 0]
    ELSE AskAnswered(history, maxlen, question, r,
                     _call_groq(_build_prompt(question, r.docs, history), net))
AskRetrieved(history, maxlen, question, r, net) ==
    IF r.raised
    THEN [raised |-> TRUE, answer |-> "", _history |-> history,
          retrieve_calls |-> 1, retrieved |-> r, llm_calls |-> 0]
    ELSE IF r.docs = <<>>
    THEN [raised |-> FALSE, answer |-> NO_INFO_MSG, _history |-> history,
          retrieve_calls |-> 1, retrieved |-> r, llm_calls |-> 0]
    ELSE AskAnswered(history, maxlen, question, r,
                     _call_groq(_build_prompt(question, r.docs, history), net))

\* ask: the returned string (or the propagated exception), the history
\* afterwards and what was invoked on the way
ask(vs, history, maxlen, question, scored, plain, net) ==
    IF ~is_ready(vs)
    THEN [raised |-> FALSE, answer |-> NOT_READY_MSG, _history |-> history,
          retrieve_calls |-> 0, retrieved |-> NoRetrieve, llm_calls |-> 0]
    ELSE AskRetrieved(history, maxlen, question, _retrieve(scored, plain), net)

\* clear_history
clear_history_mut(history) == IF Len(history) > 1 THEN Tail(history) ELSE <<>>
clear_history(history) == <<>>

\* info
info(vs) ==
    IF ~is_ready(vs) THEN [status |-> "no_document"]
    ELSE [status |-> "ready", fragment_count |-> vs.n,
          embedding_model |-> "all-MiniLM-L6-v2"]

---------------------------------------------------------------------------
(* HTTP handlers: app/api/routes.py *)

\* ext not in ALLOWED_EXTENSIONS
extension_rejected(ext) == ext \notin ALLOWED_EXTENSIONS

\* What opening UPLOAD_DIR / filename and copying the body into it do
FsOutcomes == {"ok", "oserror"}

\* POST /upload, once rebuild_from_file is back with r
UploadRebuilt_mut(name, r) ==
    [code |-> 200, ok |-> TRUE, message |-> "Fichier indexe avec succes",
     arg |-> name, error |-> r.error, _vectorstore |-> r._vectorstore,
     disk |-> r.disk, saved |-> 1, rebuild |-> 1]
UploadRebuilt(name, r) ==
    [code |-> IF r.raised THEN 500 ELSE 200, ok |-> ~r.raised,
     message |-> IF r.raised THEN "Erreur d'indexation"
                 ELSE "Fichier indexe avec succes",
     arg |-> name, error |-> r.error, _vectorstore |-> r._vectorstore,
     disk |-> r.disk, saved |-> 1, rebuild |-> 1]

\* POST /upload, with the name and the extension of the file
UploadNamed(vs, dsk, name, ext, content, save_index, fs, io) ==
    IF extension_rejected(ext)
    THEN [code |-> 400, ok |-> FALSE, message |-> "Extension non supportee",
          arg |-> ext, error |-> "", _vectorstore |-> vs, disk |-> dsk,
          saved |-> 0, rebuild |-> 0]
    ELSE IF fs # "ok"
    THEN [code |-> 500, ok |-> FALSE,
          message |-> "Impossible de sauvegarder le fichier.",
          arg |-> <<>>, error |-> "", _vectorstore |-> vs, disk |-> dsk,
          saved |-> 1, rebuild |-> 0]
    ELSE UploadRebuilt(name, rebuild_from_file(vs, UploadPath(name), content,
                                               save_index, io, dsk))

\* POST /upload.  A rejected extension answers before the file is opened; an
\* OSError while saving answers before rebuild_from_file is called.
upload_file_mut(vs, dsk, filename, content, save_index, fs, io) ==
    [UploadNamed(vs, dsk, PathName(filename), Lower(PathSuffix(PathName(filename))),
                 content, save_index, fs, io) EXCEPT !.saved = 1]
upload_file(vs, dsk, filename, content, save_index, fs, io) ==
    UploadNamed(vs, dsk, PathName(filename), Lower(PathSuffix(PathName(filename))),
                content, save_index, fs, io)

\* POST /ask, once _chatbot.ask is back with r
AskRouteAsked(stripped, r) ==
    [code |-> IF r.raised THEN 500 ELSE 200, answer |-> r.answer,
     question |-> stripped, _history |-> r._history, ask_calls |-> 1, asked |-> r]

NoAsk ==
    [raised |-> FALSE, answer |-> "", _history |-> <<>>, retrieve_calls |-> 0,
     retrieved |-> NoRetrieve, llm_calls |-> 0]

\* POST /ask, with the stripped question
AskRouteStripped(vs, history, maxlen, stripped, scored, plain, net) ==
    IF stripped = <<>>
    THEN [code |-> 200, answer |-> EMPTY_QUESTION_MSG, question |-> stripped,
          _history |-> history, ask_calls |-> 0, asked |-> NoAsk]
    ELSE AskRouteAsked(stripped,
                       ask(vs, history, maxlen, stripped, scored, plain, net))

\* POST /ask.  The question is stripped; an empty one is answered without the
\* chatbot.  An exception out of _chatbot.ask is the framework's 500.
ask_route(vs, history, maxlen, question, scored, plain, net) ==
    AskRouteStripped(vs, history, maxlen, strip(question), scored, plain, net)

\* GET /status
status(vs, history) == [status |-> "ok", chatbot |-> info(vs)]

---------------------------------------------------------------------------
(* Inputs *)

Questions == {<<>>, <<" ", "\t">>, <<" ", "q", "\n">>}

Filenames ==
    {<<"a", ".", "t", "x", "t">>,
     <<"d", "/", "a", ".", "T", "X", "T">>,
     <<"r", ".", "d", "o", "c", "x">>,
     <<"r", ".", "D", "O", "C", "X">>,
     <<"a", ".", "t", "x", "t", "/", "e", ".", "x">>,
     <<".", ".", "/", "r", ".", "d", "o", "c">>,
     <<"a", ".", "t", "x", "t", ".", "x">>,
     <<".", "t", "x", "t">>,
     <<"a", ".">>,
     <<"a">>}

\* The uploads of Spec: one accepted and one rejected file name
ChatFilenames ==
    {<<"d", "/", "a", ".", "T", "X", "T">>, <<"r", ".", "D", "O", "C", "X">>}

RebuildPaths ==
    {UploadPath(<<"b", ".", "P", "D", "F">>), UploadPath(<<"r", ".", "d", "o", "c", "x">>)}

\* What a file holds: the document and the number of chunks it splits into
Contents == {[doc |-> 1, n |-> 1], [doc |-> 2, n |-> 1]}

\* One outcome per way ingest_file can run (steps not reached are "ok")
IoCases(save_to_disk) ==
    {io \in IoOutcomes :
        /\ io.load # "docs" => io.build = "ok"
        /\ (io.load # "docs" \/ io.build # "ok" \/ ~save_to_disk) => io.save = "ok"}

NoScored == [raised |-> TRUE, pairs |-> <<>>]
NoPlain == [raised |-> TRUE, docs |-> <<>>]
NoNet == [kind |-> "error", text |-> "", status |-> 0]
NoContent == [doc |-> 1, n |-> 1]
NoIo == [load |-> "docs", build |-> "ok", save |-> "ok"]

---------------------------------------------------------------------------
(* The service: one request at a time (the handlers never await).  resp is  *)
(* what the caller gets; the JSON and the HTML rendering of /ask carry the  *)
(* same answer and question, and resp holds those.                          *)

\* What the two searches can answer on each index the service can hold
Indexes == {None} \cup {Index(c) : c \in Contents}
ScoredTable == [vs \in Indexes |-> ScoredOutcomes(vs, RAG_TOP_K)]
PlainTable == [vs \in Indexes |-> PlainOutcomes(vs, RAG_TOP_K)]

NoPrompt == [question |-> <<>>, passages |-> <<>>, history |-> <<>>]

NoCalls ==
    [ask |-> 0, retrieve |-> 0, retrieved |-> NoRetrieve, llm |-> 0, net |-> "",
     prompt |-> NoPrompt, rebuild |-> 0, saved |-> 0, after |-> ""]

Disks == {EmptyDisk, CorruptDisk} \cup {SavedDisk(Index(c)) : c \in Contents}

ConcIdle == <<pc, local, completed, rq>>

Init ==
    /\ MAX_HISTORY_LENGTH \in 0..MaxHistoryConfig
    /\ disk \in Disks
    /\ \E load_ok \in BOOLEAN : _vectorstore = load_index(disk, load_ok)
    /\ _history = <<>>
    /\ resp = [op |-> "init", code |-> 0, body |-> [ok |-> TRUE]]
    /\ calls = NoCalls
    /\ req = <<>>
    /\ pc = <<>>
    /\ local = <<>>
    /\ completed = <<>>
    /\ rq = <<>>

\* GET /
Home ==
    /\ resp' = [op |-> "home", code |-> 200,
                body |-> [is_ready |-> is_ready(_vectorstore)]]
    /\ calls' = NoCalls
    /\ req' = <<>>
    /\ UNCHANGED <<MAX_HISTORY_LENGTH, _vectorstore, _history, disk, ConcIdle>>

\* POST /ask.  With MAX_HISTORY_LENGTH = 0 the history grows with every
\* answered question: questions stop once it is over its maximum.
Ask(question) ==
    /\ Len(_history) <= MAX_HISTORY_LENGTH
    /\ \E asked \in {strip(question) # <<>> /\ is_ready(_vectorstore)} :
       \E scored \in IF asked THEN ScoredTable[_vectorstore]
                     ELSE {NoScored} :
       \E plain \in IF asked /\ ScoredDocs(scored) = <<>>
                    THEN PlainTable[_vectorstore] ELSE {NoPlain} :
       \E net \in IF asked /\ (ScoredDocs(scored) # <<>> \/ plain.docs # <<>>)
                  THEN NetOutcomes ELSE {NoNet} :
       \E r \in {ask_route(_vectorstore, _history, MAX_HISTORY_LENGTH,
                           question, scored, plain, net)} :
          /\ _history' = r._history
          /\ resp' = [op |-> "ask", code |-> r.code,
                      body |-> [answer |-> r.answer, question |-> r.question]]
          /\ calls' = [NoCalls EXCEPT !.ask = r.ask_calls,
                                      !.retrieve = r.asked.retrieve_calls,
                                      !.retrieved = r.asked.retrieved,
                                      !.llm = r.asked.llm_calls,
                                      !.net = IF r.asked.llm_calls = 1
                                              THEN net.kind ELSE "",
                                      !.prompt =
                                          IF r.asked.llm_calls = 1
                                          THEN _build_prompt(r.question,
                                                             r.asked.retrieved.docs,
                                                             _history)
                                          ELSE NoPrompt]
    /\ req' = question
    /\ UNCHANGED <<MAX_HISTORY_LENGTH, _vectorstore, disk, ConcIdle>>

\* POST /upload
Upload(filename) ==
    /\ \E rejected \in {extension_rejected(Lower(PathSuffix(PathName(filename))))} :
       \E fs \in IF rejected THEN {"ok"} ELSE FsOutcomes :
       \E content \in IF rejected \/ fs # "ok" THEN {NoContent} ELSE Contents :
       \E save_index \in IF rejected \/ fs # "ok" THEN {FALSE} ELSE BOOLEAN :
       \E io \in IF rejected \/ fs # "ok" THEN {NoIo} ELSE IoCases(save_index) :
       \E r \in {upload_file(_vectorstore, disk, filename, content, save_index,
                             fs, io)} :
          /\ _vectorstore' = r._vectorstore
          /\ disk' = r.disk
          /\ resp' = [op |-> "upload", code |-> r.code,
                      body |-> [ok |-> r.ok, message |-> r.message, arg |-> r.arg,
                                error |-> r.error]]
          /\ calls' = [NoCalls EXCEPT !.rebuild = r.rebuild, !.saved = r.saved]
    /\ req' = filename
    /\ UNCHANGED <<MAX_HISTORY_LENGTH, _history, ConcIdle>>

\* GET /status
Status ==
    /\ resp' = [op |-> "status", code |-> 200,
                body |-> status(_vectorstore, _history)]
    /\ calls' = [NoCalls EXCEPT !.after = resp.op]
    /\ req' = <<>>
    /\ UNCHANGED <<MAX_HISTORY_LENGTH, _vectorstore, _history, disk, ConcIdle>>

\* POST /clear-history
ClearHistory ==
    /\ _history' = clear_history(_history)
    /\ resp' = [op |-> "clear", code |-> 200,
                body |-> [ok |-> TRUE, message |-> "Historique efface."]]
    /\ calls' = NoCalls
    /\ req' = <<>>
    /\ UNCHANGED <<MAX_HISTORY_LENGTH, _vectorstore, disk, ConcIdle>>

\* RAGChatbot.rebuild_from_file called with any path
Rebuild(file_path) ==
    /\ \E supported \in {Lower(PathSuffix(file_path)) \in {TXT, PDF}} :
       \E content \in IF supported THEN Contents ELSE {NoContent} :
       \E save_to_disk \in IF supported THEN BOOLEAN ELSE {FALSE} :
       \E io \in IF supported THEN IoCases(save_to_disk) ELSE {NoIo} :
       \E r \in {rebuild_from_file(_vectorstore, file_path, content,
                                   save_to_disk, io, disk)} :
          /\ _vectorstore' = r._vectorstore
          /\ disk' = r.disk
          /\ resp' = [op |-> "rebuild", code |-> 0,
                      body |-> [raised |-> r.raised, error |-> r.error]]
    /\ calls' = [NoCalls EXCEPT !.rebuild = 1]
    /\ req' = file_path
    /\ UNCHANGED <<MAX_HISTORY_LENGTH, _history, ConcIdle>>

\* The chat side: questions, with uploads of one accepted and one rejected
\* file name
Next ==
    \/ Home
    \/ \E question \in Questions : Ask(question)
    \/ \E filename \in ChatFilenames : Upload(filename)
    \/ Status
    \/ ClearHistory

Spec == Init /\ [][Next]_vars

\* The ingestion side: uploads of every file name and direct rebuilds; no
\* question is asked
IngestNext ==
    \/ Home
    \/ \E filename \in Filenames : Upload(filename)
    \/ Status
    \/ \E file_path \in RebuildPaths : Rebuild(file_path)

IngestSpec == Init /\ [][IngestNext]_vars

\* Every operation of the chatbot: questions, clears, uploads and direct rebuilds
LifeNext ==
    \/ Home
    \/ \E question \in Questions : Ask(question)
    \/ \E filename \in ChatFilenames : Upload(filename)
    \/ Status
    \/ ClearHistory
    \/ \E file_path \in RebuildPaths : Rebuild(file_path)

LifeSpec == Init /\ [][LifeNext]_vars

---------------------------------------------------------------------------
(* _retrieve on its own: every k and every answer of the two searches *)

\* An index of more chunks than any k asked for
BigIndex == [present |-> TRUE, doc |-> 1, n |-> MaxK + 1]

RetrieveInit ==
    /\ MAX_HISTORY_LENGTH = 0
    /\ disk = SavedDisk(BigIndex)
    /\ _vectorstore = load_index(disk, TRUE)
    /\ _history = <<>>
    /\ req = <<>>
    /\ resp = [op |-> "init", code |-> 0, body |-> [ok |-> TRUE]]
    /\ calls = NoCalls
    /\ pc = <<>>
    /\ local = <<>>
    /\ completed = <<>>
    /\ \E k \in 1..MaxK :
       \E scored \in ScoredOutcomes(load_index(SavedDisk(BigIndex), TRUE), k) :
       \E plain \in PlainOutcomes(load_index(SavedDisk(BigIndex), TRUE), k) :
          rq = [done |-> FALSE, k |-> k, scored |-> scored, plain |-> plain,
                out |-> NoRetrieve]

\* self._retrieve(question, k), on what the two searches answer for this k
Retrieve ==
    /\ ~rq.done
    /\ rq' = [rq EXCEPT !.done = TRUE, !.out = _retrieve(rq.scored, rq.plain)]
    /\ UNCHANGED <<MAX_HISTORY_LENGTH, _vectorstore, _history, disk, req, resp,
                   calls, pc, local, completed>>

RetrieveNext == Retrieve

RetrieveSpec == RetrieveInit /\ [][RetrieveNext]_vars

---------------------------------------------------------------------------
(* The chatbot called from several threads at once: no lock is taken, so    *)
(* the threads interleave between any two accesses of self._vectorstore and *)
(* of self._history.                                                        *)

Askers == {"ask1"}
Rebuilders == {"rebuild1", "rebuild2"}
Threads == Askers \cup Rebuilders

\* The file each rebuild is called with, and the index the service starts with
FileOf(t) == IF t = "rebuild1" THEN [doc |-> 1, n |-> 2] ELSE [doc |-> 2, n |-> 2]
StartContent == [doc |-> 3, n |-> 2]

NoLocal ==
    [scored_done |-> FALSE, scored_on |-> None, plain_done |-> FALSE,
     plain_on |-> None, docs |-> <<>>, answer |-> "", sliced |-> <<>>,
     r |-> IngestFailed("", EmptyDisk)]

ConcInit ==
    /\ MAX_HISTORY_LENGTH \in 0..MaxHistoryConfig
    /\ disk \in {EmptyDisk, SavedDisk(Index(StartContent))}
    /\ _vectorstore = load_index(disk, TRUE)
    /\ _history = <<>>
    /\ req = <<>>
    /\ resp = [op |-> "init", code |-> 0, body |-> [ok |-> TRUE]]
    /\ calls = NoCalls
    /\ pc = [t \in Threads |-> "start"]
    /\ local = [t \in Threads |-> NoLocal]
    /\ completed = <<>>
    /\ rq = <<>>

ConcFrame == <<MAX_HISTORY_LENGTH, req, resp, calls, rq>>

\* ask, line 146: if not self.is_ready: return the not-ready message
AskCheck(t) ==
    /\ pc[t] = "start"
    /\ pc' = [pc EXCEPT ![t] = IF is_ready(_vectorstore) THEN "scored" ELSE "done"]
    /\ local' = [local EXCEPT ![t].answer =
                    IF is_ready(_vectorstore) THEN "" ELSE NOT_READY_MSG]
    /\ UNCHANGED <<_vectorstore, _history, disk, completed, ConcFrame>>

\* _retrieve, lines 190-193: self._vectorstore is read and searched with scores
AskScored(t) ==
    /\ pc[t] = "scored"
    /\ \E scored \in ScoredOutcomes(_vectorstore, RAG_TOP_K) :
       \E docs \in {ScoredDocs(scored)} :
          /\ local' = [local EXCEPT ![t].scored_done = TRUE,
                                    ![t].scored_on = _vectorstore,
                                    ![t].docs = docs]
          /\ pc' = [pc EXCEPT ![t] = IF docs # <<>> THEN "llm" ELSE "plain"]
    /\ UNCHANGED <<_vectorstore, _history, disk, completed, ConcFrame>>

\* _retrieve, line 198: self._vectorstore is read again for the plain search
AskPlain(t) ==
    /\ pc[t] = "plain"
    /\ \E plain \in PlainOutcomes(_vectorstore, RAG_TOP_K) :
       \E r \in {RetrieveWith(local[t].docs, plain)} :
          /\ local' = [local EXCEPT ![t].plain_done = TRUE,
                                    ![t].plain_on = _vectorstore,
                                    ![t].docs = r.docs,
                                    ![t].answer = IF ~r.raised /\ r.docs = <<>>
                                                  THEN NO_INFO_MSG ELSE ""]
          /\ pc' = [pc EXCEPT ![t] = IF r.raised THEN "raised"
                                      ELSE IF r.docs = <<>> THEN "done"
                                      ELSE "llm"]
    /\ UNCHANGED <<_vectorstore, _history, disk, completed, ConcFrame>>

\* ask, lines 156-157: the prompt is built from self._history, the LLM is called
AskLlm(t) ==
    /\ pc[t] = "llm"
    /\ \E net \in NetOutcomes :
          local' = [local EXCEPT ![t].answer =
                       _call_groq(_build_prompt(<<"q">>, local[t].docs, _history),
                                  net).text]
    /\ pc' = [pc EXCEPT ![t] = "append"]
    /\ UNCHANGED <<_vectorstore, _history, disk, completed, ConcFrame>>

\* _add_to_history, line 201: self._history.append(...)
AskAppend(t) ==
    /\ pc[t] = "append"
    /\ _history' = Append(_history, <<<<"q">>, local[t].answer>>)
    /\ pc' = [pc EXCEPT ![t] = "trim"]
    /\ UNCHANGED <<_vectorstore, disk, local, completed, ConcFrame>>

\* _add_to_history, lines 202-203: the length is read and the slice is taken
AskSlice(t) ==
    /\ pc[t] = "trim"
    /\ local' = [local EXCEPT ![t].sliced = Trim(_history, MAX_HISTORY_LENGTH)]
    /\ pc' = [pc EXCEPT ![t] = IF Len(_history) > MAX_HISTORY_LENGTH
                                THEN "assign" ELSE "done"]
    /\ UNCHANGED <<_vectorstore, _history, disk, completed, ConcFrame>>

\* _add_to_history, line 203: the slice is stored in self._history
AskAssign(t) ==
    /\ pc[t] = "assign"
    /\ _history' = local[t].sliced
    /\ pc' = [pc EXCEPT ![t] = "done"]
    /\ UNCHANGED <<_vectorstore, disk, local, completed, ConcFrame>>

\* rebuild_from_file, line 141, right-hand side: ingest_file runs to its end
RebuildIngest(t) ==
    /\ pc[t] = "start"
    /\ \E save_to_disk \in BOOLEAN :
       \E io \in IoCases(save_to_disk) :
       \E r \in {ingest_file(UploadPath(<<"a", ".", "t", "x", "t">>), FileOf(t),
                             save_to_disk, io, disk)} :
          /\ local' = [local EXCEPT ![t].r = r]
          /\ disk' = r.disk
    /\ pc' = [pc EXCEPT ![t] = "ingested"]
    /\ UNCHANGED <<_vectorstore, _history, completed, ConcFrame>>

\* rebuild_from_file, line 141, the assignment (or the exception leaving it out)
RebuildFinish(t) ==
    /\ pc[t] = "ingested"
    /\ \E done \in {RebuildAssigned(_vectorstore, local[t].r)} :
          /\ _vectorstore' = done._vectorstore
          /\ pc' = [pc EXCEPT ![t] = IF done.raised THEN "failed" ELSE "done"]
          /\ completed' = IF done.raised THEN completed ELSE Append(completed, t)
    /\ UNCHANGED <<_history, disk, local, ConcFrame>>

ConcNext ==
    \/ \E t \in Askers :
          \/ AskCheck(t)
          \/ AskScored(t)
          \/ AskPlain(t)
          \/ AskLlm(t)
          \/ AskAppend(t)
          \/ AskSlice(t)
          \/ AskAssign(t)
    \/ \E t \in Rebuilders :
          \/ RebuildIngest(t)
          \/ RebuildFinish(t)

ConcSpec == ConcInit /\ [][ConcNext]_vars

---------------------------------------------------------------------------
(* Properties of the service *)

Last(seq) == seq[Len(seq)]

IsSuffix(t, seq) ==
    /\ Len(t) <= Len(seq)
    /\ t = SubSeq(seq, Len(seq) - Len(t) + 1, Len(seq))

\* C1: an ask on a chatbot without index returns the fixed "no document
\* imported" message, runs neither retrieval nor the LLM client, and leaves
\* the history and the index as they were.
C1_NotReadyAsk ==
    [][(resp'.op = "ask" /\ calls'.ask = 1 /\ _vectorstore = None) =>
          /\ resp'.code = 200
          /\ resp'.body.answer = NOT_READY_MSG
          /\ calls'.llm = 0
          /\ calls'.retrieve = 0
          /\ _history' = _history
          /\ _vectorstore' = None]_vars

C1_Witness ==
    /\ resp.op = "ask"
    /\ calls.ask = 1
    /\ _vectorstore = None
    /\ resp.body.answer = NOT_READY_MSG

\* C2: the history never holds more than MAX_HISTORY_LENGTH turns, for every
\* configured MAX_HISTORY_LENGTH >= 0 (0 included).
C2_HistoryBounded == Len(_history) <= MAX_HISTORY_LENGTH

\* C3: a rebuild whose ingestion fails (at the extension, the extraction, the
\* index build or the save of the index) leaves the live index as it was, and
\* the failure reaches the caller: rebuild_from_file raises, and the upload
\* that called it answers 500 with ok = false.
C3_FailedRebuildKeepsIndex ==
    [][(calls'.rebuild = 1 /\ resp'.body.error # "") =>
          /\ _vectorstore' = _vectorstore
          /\ resp'.op = "rebuild" => resp'.body.raised
          /\ resp'.op = "upload" => (resp'.code = 500 /\ ~resp'.body.ok)]_vars

C3_Witness ==
    /\ resp.op = "rebuild"
    /\ resp.body.raised
    /\ resp.body.error = "save_error"
    /\ disk = CorruptDisk
    /\ _vectorstore # None

\* The uploads of Filenames that must be rejected, each with the extension the
\* answer has to name
RejectedExt ==
    (<<"r", ".", "d", "o", "c", "x">> :> <<".", "d", "o", "c", "x">>) @@
    (<<"r", ".", "D", "O", "C", "X">> :> <<".", "d", "o", "c", "x">>) @@
    (<<"a", ".", "t", "x", "t", "/", "e", ".", "x">> :> <<".", "x">>) @@
    (<<".", ".", "/", "r", ".", "d", "o", "c">> :> <<".", "d", "o", "c">>) @@
    (<<"a", ".", "t", "x", "t", ".", "x">> :> <<".", "x">>) @@
    (<<".", "t", "x", "t">> :> <<>>) @@
    (<<"a", ".">> :> <<>>) @@
    (<<"a">> :> <<>>)

\* C4: an upload whose file name, path stripped and case ignored, has an
\* extension other than .txt and .pdf is answered 400 with ok = false and a
\* message naming that extension, before the file is written and before any
\* rebuild; the index and the persisted index stay as they were.
C4_RejectedUpload ==
    [][(resp'.op = "upload" /\ req' \in DOMAIN RejectedExt) =>
          /\ resp'.code = 400
          /\ ~resp'.body.ok
          /\ resp'.body.message = "Extension non supportee"
          /\ resp'.body.arg = RejectedExt[req']
          /\ calls'.saved = 0
          /\ calls'.rebuild = 0
          /\ _vectorstore' = _vectorstore
          /\ disk' = disk]_vars

C4_Witness ==
    /\ resp.op = "upload"
    /\ req = <<"r", ".", "D", "O", "C", "X">>
    /\ resp.code = 400
    /\ resp.body.arg = <<".", "d", "o", "c", "x">>
    /\ _vectorstore # None

\* The answer _call_groq owes to each outcome of the request
ExpectedAnswer(kind) ==
    CASE kind = "ok" -> {"Paris."}
      [] kind = "timeout" -> {TIMEOUT_MSG}
      [] kind = "http" -> {ApiErrorMsg(429)}
      [] OTHER -> {UNEXPECTED_MSG}

\* C5: when ask reaches the LLM client, whatever the request does (answers,
\* times out, answers non-2xx, fails otherwise), ask returns a string, the
\* completion or the fallback message of that failure, and the turn
\* (question, that string) is appended to the history as its last element.
C5_LlmNeverRaises ==
    [][(resp'.op = "ask" /\ calls'.llm = 1) =>
          /\ resp'.code = 200
          /\ resp'.body.answer \in ExpectedAnswer(calls'.net)
          /\ _history' # <<>>
          /\ Last(_history') = <<strip(req'), resp'.body.answer>>
          /\ IsSuffix(_history', Append(_history, Last(_history')))]_vars

C5_Witness ==
    /\ resp.op = "ask"
    /\ calls.llm = 1
    /\ calls.net = "timeout"
    /\ resp.body.answer = TIMEOUT_MSG
    /\ Len(_history) = 2
    /\ Last(_history) = <<<<"q">>, TIMEOUT_MSG>>

\* C6: on a chatbot with an index, when retrieval returns no chunk, ask
\* returns the fixed "no relevant information" message as a normal value,
\* does not call the LLM client and leaves the history as it was.
C6_EmptyRetrieval ==
    [][(resp'.op = "ask" /\ calls'.retrieve = 1 /\ ~calls'.retrieved.raised
          /\ calls'.retrieved.docs = <<>>) =>
          /\ resp'.code = 200
          /\ resp'.body.answer = NO_INFO_MSG
          /\ calls'.llm = 0
          /\ _history' = _history]_vars

C6_Witness ==
    /\ resp.op = "ask"
    /\ calls.retrieve = 1
    /\ calls.retrieved = [raised |-> FALSE, docs |-> <<>>, scored_calls |-> 1,
                          plain_calls |-> 1]
    /\ resp.body.answer = NO_INFO_MSG
    /\ _history # <<>>

ReadinessShown(vs) == IF vs = None THEN "no_document" ELSE "ready"

\* C8 as stated: the status answered right after clear_history shows the
\* empty history, with the readiness unchanged.
C8_StatusShowsHistory ==
    [][(resp.op = "clear" /\ resp'.op = "status") =>
          /\ resp'.body.chatbot.status = ReadinessShown(_vectorstore)
          /\ \/ "history" \in DOMAIN resp'.body
             \/ "history" \in DOMAIN resp'.body.chatbot]_vars

\* C8 amended: clear_history empties the history and leaves the index as it
\* was; the status answered right after it reports that same readiness and
\* nothing about the history, which is still empty.
C8_ClearThenStatus ==
    [][/\ resp'.op = "clear" =>
             (_history' = <<>> /\ _vectorstore' = _vectorstore)
       /\ (resp.op = "clear" /\ resp'.op = "status") =>
             /\ resp'.body.chatbot.status = ReadinessShown(_vectorstore)
             /\ DOMAIN resp'.body = {"status", "chatbot"}
             /\ "history" \notin DOMAIN resp'.body.chatbot
             /\ _history' = <<>>
             /\ _vectorstore' = _vectorstore]_vars

C8_Witness ==
    /\ resp.op = "status"
    /\ calls.after = "clear"
    /\ resp.body.chatbot.status = "ready"
    /\ _history = <<>>

BlankQuestions == {<<>>, <<" ", "\t">>}

\* C10: a question that is empty or all whitespace is answered 200 with the
\* fixed "please enter a question" warning; the chatbot's ask and the LLM
\* client are not called and the history stays as it was.
C10_BlankQuestion ==
    [][(resp'.op = "ask" /\ req' \in BlankQuestions) =>
          /\ resp'.code = 200
          /\ resp'.body.answer = EMPTY_QUESTION_MSG
          /\ calls'.ask = 0
          /\ calls'.retrieve = 0
          /\ calls'.llm = 0
          /\ _history' = _history]_vars

C10_Witness ==
    /\ resp.op = "ask"
    /\ req = <<" ", "\t">>
    /\ resp.body.answer = EMPTY_QUESTION_MSG
    /\ _vectorstore # None
    /\ _history # <<>>

Nth(S, j) == CHOOSE i \in S : Cardinality({x \in S : x < i}) = j - 1

\* The positions of the pairs at or above the score floor
Passing(pairs) == {i \in 1..Len(pairs) : pairs[i].score >= 6}

\* C7: _retrieve returns the chunks of the scored search whose score is at
\* least RAG_MIN_SCORE, in the order the search gave them, whenever there is
\* one; otherwise (all below the floor, no result, or the scored search
\* raising) it runs the plain search once and its outcome, at most k chunks or
\* its exception, is the outcome of _retrieve.
C7_Retrieve ==
    rq.done =>
        IF ~rq.scored.raised /\ Passing(rq.scored.pairs) # {}
        THEN /\ ~rq.out.raised
             /\ rq.out.plain_calls = 0
             /\ Len(rq.out.docs) = Cardinality(Passing(rq.scored.pairs))
             /\ \A j \in 1..Len(rq.out.docs) :
                   rq.out.docs[j] = rq.scored.pairs[Nth(Passing(rq.scored.pairs), j)].doc
        ELSE /\ rq.out.plain_calls = 1
             /\ rq.out.raised = rq.plain.raised
             /\ rq.out.docs = rq.plain.docs
             /\ Len(rq.out.docs) <= rq.k

C7_Witness ==
    /\ rq.done
    /\ rq.k = 2
    /\ Len(rq.scored.pairs) = 2
    /\ Passing(rq.scored.pairs) = {}
    /\ Len(rq.plain.docs) = 2
    /\ rq.out.docs = rq.plain.docs
    /\ rq.out.plain_calls = 1

Range(seq) == {seq[i] : i \in 1..Len(seq)}

RebuildsOver == \A t \in Rebuilders : pc[t] \in {"done", "failed"}

LiveIndexes == {Index(StartContent)} \cup {Index(FileOf(r)) : r \in Range(completed)}

Condition(r) ==
    IF r.body.message = "Extension non supportee" THEN "invalid_extension"
    ELSE IF r.body.message = "Impossible de sauvegarder le fichier." THEN "save_file"
    ELSE r.body.error

ClaimedConditions == {"invalid_extension", "no_content", "build_error"}

\* What every upload answers, whatever the file: ok and message, and 200 with
\* ok = true when a file with an allowed extension was saved and its one
\* rebuild succeeded, a failure otherwise
UploadAnswered ==
    (resp'.op = "upload") =>
        /\ {"ok", "message"} \subseteq DOMAIN resp'.body
        /\ resp'.code \in {200, 400, 500}
        /\ resp'.body.ok <=> resp'.code = 200
        /\ req' \in DOMAIN RejectedExt =>
              (resp'.code = 400 /\ calls'.rebuild = 0)
        /\ req' \notin DOMAIN RejectedExt =>
              \/ /\ calls'.rebuild = 0
                 /\ resp'.code = 500
                 /\ resp'.body.message = "Impossible de sauvegarder le fichier."
                 /\ _vectorstore' = _vectorstore
              \/ /\ calls'.rebuild = 1
                 /\ calls'.saved = 1
                 /\ resp'.code = 200 <=> resp'.body.error = ""
                 /\ resp'.code = 200 => is_ready(_vectorstore')
                 /\ resp'.code # 200 =>
                       (resp'.code = 500 /\ _vectorstore' = _vectorstore)

C12_ReadinessMonotonic ==
    [][/\ _vectorstore # None => _vectorstore' # None
       /\ (_vectorstore = None /\ _vectorstore' # None) =>
             /\ calls'.rebuild = 1
             /\ resp'.body.error = ""
             /\ resp'.op = "upload" => (resp'.code = 200 /\ resp'.body.ok)
             /\ resp'.op = "rebuild" => ~resp'.body.raised
       /\ resp'.op \in {"ask", "clear", "status", "home"} =>
             _vectorstore' = _vectorstore]_vars

C12_Witness ==
    /\ resp.op = "upload"
    /\ resp.code = 500
    /\ resp.body.error = "build_error"
    /\ _vectorstore # None
    /\ _history # <<>>

\* The turns of history that _build_prompt puts in the prompt: its last three
PromptTurns(history) ==
    IF Len(history) <= 3 THEN history
    ELSE <<history[Len(history) - 2], history[Len(history) - 1], history[Len(history)]>>

\* C13: a rebuild, through an upload or directly, successful or failed, leaves
\* the history identical; the history changes only when an ask appends its
\* one turn or when clear_history empties it; and the prompt of every ask
\* that reaches the LLM carries the latest turns of the history as it stood
\* before that ask, turns recorded before a rebuild included.
C13_RebuildKeepsHistory ==
    [][/\ resp'.op \in {"upload", "rebuild"} => _history' = _history
       /\ _history' # _history =>
             \/ /\ resp'.op = "ask"
                /\ calls'.llm = 1
                /\ _history' # <<>>
                /\ IsSuffix(_history', Append(_history, Last(_history')))
             \/ /\ resp'.op = "clear"
                /\ _history' = <<>>
       /\ (resp'.op = "ask" /\ calls'.llm = 1) =>
             calls'.prompt.history = PromptTurns(_history)]_vars

C13_Witness ==
    /\ resp.op = "upload"
    /\ resp.code = 200
    /\ calls.rebuild = 1
    /\ Len(_history) = 2
    /\ _vectorstore = Index([doc |-> 2, n |-> 1])
    /\ disk = SavedDisk(Index([doc |-> 1, n |-> 1]))

====
